---- MODULE Spec2Model ----
(***************************************************************************)
(* InstallationScheduler (src/src/core/Installation/scheduler.py) and the  *)
(* task life cycle of InstallationTask (src/src/core/Installation/tasks.py)*)
(* as a state machine.  The threads of the program are the API caller      *)
(* (client), the scheduling loop threads created by start(), and the pool  *)
(* workers that run the submitted futures and their done-callbacks.        *)
(* DownloadManager (src/Core/request/downloader.py) is the second machine: *)
(* schedule() and one download coroutine per file on the asyncio event     *)
(* loop, where a step runs from one await to the next.                     *)
(* Further machines, each with its own specification: one call of          *)
(* FileDownloader.download_file, MinecraftDownloadManager                  *)
(* (src/src/core/request/minecraft_downloader.py),                         *)
(* MultiTaskCallbackConverter (src/Core/Installation/callback_converter.py)*)
(* CompositeInstallationTask.execute and ConnectionPoolManager.            *)
(***************************************************************************)
EXTENDS Integers, Sequences, FiniteSets, TLC

\* ---------------------------------------------------------------- bounds
NumIds == 2                  \* distinct task_id values the caller uses
MaxTasks == 2                \* add_task calls (task objects constructed)
MaxLoops == 2                \* start() calls that create a loop thread
MaxCtl == 2                  \* pause / resume / stop / remove_task calls
max_concurrent_tasks == 1    \* SchedulerConfig.max_concurrent_tasks
max_retries == 1             \* SchedulerConfig.max_retries
NumFiles == 3                \* DownloadFile entries given to DownloadManager
MaxSize == 2                 \* largest file size, in chunks
concurrent_count == 2        \* DownloadManager concurrent_count
dm_max_retries == 5          \* DownloadManager max_retries
FdMaxSize == 2               \* largest declared size of a file, in bytes
FdMaxBody == 3               \* most bytes a server sends in one response
NumMcFiles == 2              \* DownloadFile entries given to MinecraftDownloadManager
mc_concurrent_count == 1     \* MinecraftDownloadManager concurrent_count
MaxCalls == 5                \* calls made on the callback converter
NumSubtasks == 3             \* subtasks of the composite task
NumHosts == 2                \* distinct scheme://host keys
NumCallers == 3              \* coroutines that call get_client
PoolMaxCalls == 2            \* get_client calls of one coroutine
MaxCloses == 1               \* close_all calls
NumCacheKeys == 2            \* distinct (url, path) pairs the cache is asked about
MaxTime == 8                 \* the clock stops at this many days

\* ------------------------------------------------------ program constants
\* TaskPriority
LOW == 1
NORMAL == 2
HIGH == 3
CRITICAL == 4
enable_dependency_check == TRUE
enable_task_validation == TRUE

TaskIds == 1..NumIds
\* the priorities the caller gives its tasks
Priorities == {NORMAL}
AllPriorities == {LOW, NORMAL, HIGH, CRITICAL}
NoTask == 0
NoCount == -1
Files == 1..NumFiles
NoProgress == -1
\* file["sha1"] absent or empty
NoSha == 0
\* the bytes a response body is made of
Bytes == 1..2
McFiles == 1..NumMcFiles
mc_max_retries == 3
\* InstallationTaskType members the installer activates
TaskTypes == {"download", "install_game"}
NoType == "none"
default_max_progress == 100
\* the values setProgress and setMax are called with
CvValues == {0, 1, 100}
Subtasks == 1..NumSubtasks
Hosts == 1..NumHosts
Callers == 1..NumCallers
NoClient == 0
CacheKeys == 1..NumCacheKeys
\* DownloadCache configuration, in days (the source counts seconds)
max_cache_age == 7
verify_interval == 1

VARIABLES
    status,           \* self.status (SchedulerStatus)
    tasks,            \* self._tasks: task_id -> task object (NoTask: absent)
    objs,             \* the task objects constructed so far, in order
    task_queue,       \* self._task_queue: entries <<-priority, task_id>>, in insertion order
    running_tasks,    \* keys of self._running_tasks
    completed_tasks,  \* self._completed_tasks
    failed_tasks,     \* self._failed_tasks
    retry_counts,     \* self._retry_counts (NoCount: key absent)
    total_tasks,      \* self._total_tasks
    completed_count,  \* self._completed_count
    failed_count,     \* self._failed_count
    executor,         \* self._executor: 0 is None, e > 0 the pool made by the e-th start()
    stop_event,       \* self._stop_event
    lock,             \* self._lock: "free" or "held"
    loops,            \* the scheduling loop threads, one per effective start()
    futs,             \* the futures in flight, in submission order
    client,           \* the API caller: position inside stop(), calls made
    files,            \* DownloadManager._tasks: the size of each file, in chunks
    sched,            \* position of schedule(): "idle", "gather", "returned"
    coros,            \* the download coroutines: position, outcome, attempts, waits
    semaphore,        \* permits left in the semaphore of schedule()
    task_retry_count,          \* self._task_retry_count (NoCount: key absent)
    task_failed_permanently,   \* self._task_failed_permanently
    dm_failed_tasks,  \* DownloadManager._failed_tasks
    is_cancelled,     \* DownloadManager._is_cancelled
    task_downloaded,  \* self._task_downloaded
    task_total,       \* self._task_total (0: not known yet)
    progress,         \* the overall progress last emitted (NoProgress: none)
    events,           \* error and finished events emitted to the callback group
    fd,               \* one FileDownloader.download_file call and the file it writes
    mc,               \* MinecraftDownloadManager and its download coroutines
    cv,               \* MultiTaskCallbackConverter and the events it fired
    ct,               \* CompositeInstallationTask.execute and its subtasks
    pool,             \* ConnectionPoolManager and the coroutines that use it
    dc                \* DownloadCache, the files it indexes and the clock

schedVars == <<status, tasks, objs, task_queue, running_tasks, completed_tasks,
               failed_tasks, retry_counts, total_tasks, completed_count,
               failed_count, executor, stop_event, lock, loops, futs, client>>

dmVars == <<files, sched, coros, semaphore, task_retry_count,
            task_failed_permanently, dm_failed_tasks, is_cancelled,
            task_downloaded, task_total, progress, events>>

extVars == <<fd, mc, cv, ct, pool, dc>>

vars == <<schedVars, dmVars, extVars>>

\* ---------------------------------------------------------------- helpers
Remove(s, k) == SubSeq(s, 1, k - 1) \o SubSeq(s, k + 1, Len(s))

\* tuple comparison of queue entries (priority, task_id), as heapq compares them
EntryLess(a, b) == a[1] < b[1] \/ (a[1] = b[1] /\ a[2] < b[2])

\* index of the entry PriorityQueue.get() returns
QueueHead(q) ==
    CHOOSE i \in 1..Len(q) :
        \A j \in 1..Len(q) : /\ ~EntryLess(q[j], q[i])
                             /\ (q[j] = q[i] => i <= j)

\* entry add_task and _handle_task_failure put for a task
QueueEntry(o) == <<0 - objs[o].prio, objs[o].id>>

\* can_execute with the membership test inverted
can_execute_inverted(deps, completed) == \A d \in deps : d \notin completed

\* InstallationTask.can_execute
can_execute(deps, completed) == \A d \in deps : d \in completed

\* InstallationScheduler._check_dependencies
check_dependencies(o) == can_execute(objs[o].deps, completed_tasks)

\* self._retry_counts.get(task_id, 0)
RetryCount(id) == IF retry_counts[id] = NoCount THEN 0 ELSE retry_counts[id]

\* the retry test one off: a retry is still granted at max_retries
ShouldRetry_one_more(rc) == rc <= max_retries

\* the retry test of _handle_task_failure
ShouldRetry(rc) == rc < max_retries

\* InstallationScheduler._is_all_tasks_finished
AllTasksFinished ==
    /\ \A id \in TaskIds :
          tasks[id] # NoTask => objs[tasks[id]].status \notin {"PENDING", "RUNNING"}
    /\ task_queue = <<>>
    /\ running_tasks = {}

NewCoro == [pc |-> "new", out |-> "none", attempts |-> 0, waits |-> <<>>]

\* DownloadManager.__init__
DmConstructed ==
    /\ sched = "idle"
    /\ coros = [t \in Files |-> NewCoro]
    /\ semaphore = 0
    /\ task_retry_count = [t \in Files |-> NoCount]
    /\ task_failed_permanently = [t \in Files |-> FALSE]
    /\ dm_failed_tasks = 0
    /\ is_cancelled = FALSE
    /\ task_downloaded = [t \in Files |-> 0]
    /\ task_total = [t \in Files |-> 0]
    /\ progress = NoProgress
    /\ events = <<>>

\* InstallationScheduler.__init__
SchedulerConstructed ==
    /\ status = "IDLE"
    /\ tasks = [id \in TaskIds |-> NoTask]
    /\ objs = <<>>
    /\ task_queue = <<>>
    /\ running_tasks = {}
    /\ completed_tasks = {}
    /\ failed_tasks = {}
    /\ retry_counts = [id \in TaskIds |-> NoCount]
    /\ total_tasks = 0
    /\ completed_count = 0
    /\ failed_count = 0
    /\ executor = 0
    /\ stop_event = FALSE
    /\ lock = "free"
    /\ loops = <<>>
    /\ futs = <<>>
    /\ client = [pc |-> "idle", wait |-> FALSE, ctl |-> 0]

\* FileDownloader.__init__ and the DownloadFile a call is given: its declared
\* size (0: none) and sha1 (NoSha: none), and whether url and path are present
FdNew(size, sha1, valid) ==
    [pc |-> "idle", size |-> size, sha1 |-> sha1, valid |-> valid, total |-> 0,
     written |-> <<>>, is_cancelled |-> FALSE, events |-> <<>>]

FdConstructed == fd = FdNew(0, NoSha, TRUE)

\* MinecraftDownloadManager.__init__; disk is what each task's path holds
\* before the run, decl the size (0: none) and sha1 (NoSha: none) each task
\* declares
McNew(disk, decl) ==
    [pc |-> "idle", disk |-> disk, decl |-> decl, tasks |-> McFiles,
     skipped_tasks |-> 0, completed_tasks |-> 0, failed_tasks |-> 0,
     is_cancelled |-> FALSE, semaphore |-> 0,
     coros |-> [f \in McFiles |-> [pc |-> "none", result |-> FALSE, calls |-> 0]],
     progress |-> NoProgress, events |-> <<>>, ret |-> "none"]

McConstructed ==
    mc = McNew([f \in McFiles |-> [exists |-> FALSE, content |-> <<>>]],
               [f \in McFiles |-> [size |-> 0, sha1 |-> NoSha]])

\* an entry of MultiTaskCallbackConverter._task_states, as add_task makes it
NewTaskState ==
    [reg |-> TRUE, progress |-> 0, max_progress |-> default_max_progress,
     completed |-> FALSE]

NoTaskState ==
    [reg |-> FALSE, progress |-> 0, max_progress |-> default_max_progress,
     completed |-> FALSE]

\* MultiTaskCallbackConverter.__init__
CvConstructed ==
    cv = [current_task_type |-> NoType,
          task_states |-> [t \in TaskTypes |-> NoTaskState],
          total_tasks |-> 0, completed_tasks |-> 0, events |-> <<>>,
          calls |-> 0, mark |-> 0, statuses |-> 0, handed |-> {}, via |-> NoType]

\* CompositeInstallationTask.__init__; subs gives for each subtask what its
\* validate returns and how its execute ends ("ok", "fail", "raise")
CtNew(subs, parallel) ==
    [pc |-> "idle", subs |-> subs, parallel |-> parallel, i |-> 1,
     validated |-> {}, executed |-> {}, success_count |-> 0,
     completed_subtasks |-> 0, progress |-> 0, status |-> "PENDING",
     error |-> FALSE, ret |-> "none"]

CtConstructed ==
    ct = CtNew([k \in Subtasks |-> [validate |-> TRUE, execute |-> "ok"]], FALSE)

\* ConnectionPoolManager.__init__ and the coroutines about to use the pool
PoolConstructed ==
    pool = [clients |-> [h \in Hosts |-> NoClient], lock |-> "free",
            created |-> 0, closed |-> {}, closes |-> 0, closer |-> "idle",
            callers |-> [c \in Callers |->
                            [pc |-> "idle", key |-> 1, got |-> NoClient,
                             epoch |-> 0, calls |-> 0]],
            made |-> [h \in Hosts |-> 0]]

\* an absent entry of cache_data
NoEntry == [present |-> FALSE, sha1 |-> NoSha, size |-> 0, download_time |-> 0,
            last_verified |-> 0]

NoAnswer == [key |-> 0, ret |-> FALSE, age |-> 0, kept |-> FALSE]

\* DownloadCache.__init__ with no cache file yet; disk is what each indexed
\* path holds, last the latest answer of is_file_cached
DcNew(disk) ==
    [cache_data |-> [k \in CacheKeys |-> NoEntry], disk |-> disk, now |-> 0,
     last |-> NoAnswer]

DcConstructed ==
    dc = DcNew([k \in CacheKeys |-> [exists |-> FALSE, content |-> <<>>]])

ExtConstructed ==
    /\ DcConstructed
    /\ FdConstructed
    /\ McConstructed
    /\ CvConstructed
    /\ CtConstructed
    /\ PoolConstructed

Init ==
    /\ SchedulerConstructed
    /\ DmConstructed
    /\ ExtConstructed
    /\ files = [t \in Files |-> 1]

\* ------------------------------------------------------------ the API caller
\* Every public method below runs under self._lock; the caller waits while a
\* done-callback holds the lock.
ClientReady == client.pc = "idle" /\ lock = "free"

NewTask(id, prio, deps) ==
    [id |-> id, prio |-> prio, deps |-> deps, status |-> "PENDING", err |-> FALSE,
     runs |-> 0, vfails |-> 0]

\* InstallationScheduler.add_task
AddTask(id, prio, deps) ==
    /\ ClientReady
    /\ Len(objs) < MaxTasks
    /\ objs' = Append(objs, NewTask(id, prio, deps))
    /\ tasks' = [tasks EXCEPT ![id] = Len(objs) + 1]
    /\ retry_counts' = [retry_counts EXCEPT ![id] = 0]
    /\ total_tasks' = total_tasks + 1
    /\ task_queue' = Append(task_queue, <<0 - prio, id>>)
    /\ UNCHANGED <<status, running_tasks, completed_tasks, failed_tasks,
                   completed_count, failed_count, executor, stop_event, lock,
                   loops, futs, client>>
    /\ UNCHANGED <<dmVars, extVars>>

\* the test remove_task makes before it deletes the task
RemoveAllowed(id) == tasks[id] # NoTask /\ id \notin running_tasks

\* InstallationScheduler.remove_task, the call that returns True
RemoveTask(id) ==
    /\ ClientReady
    /\ client.ctl < MaxCtl
    /\ RemoveAllowed(id)
    /\ tasks' = [tasks EXCEPT ![id] = NoTask]
    /\ retry_counts' = [retry_counts EXCEPT ![id] = NoCount]
    /\ total_tasks' = total_tasks - 1
    /\ client' = [client EXCEPT !.ctl = @ + 1]
    /\ UNCHANGED <<status, objs, task_queue, running_tasks, completed_tasks,
                   failed_tasks, completed_count, failed_count, executor,
                   stop_event, lock, loops, futs>>
    /\ UNCHANGED <<dmVars, extVars>>

\* the test start() makes before it starts anything
StartAllowed == status # "RUNNING"

NewLoop == [pc |-> "top", obj |-> NoTask]

\* InstallationScheduler.start: RUNNING, a new pool, the stop event cleared, a
\* new loop thread
Start ==
    /\ ClientReady
    /\ Len(loops) < MaxLoops
    /\ StartAllowed
    /\ status' = "RUNNING"
    /\ executor' = Len(loops) + 1
    /\ stop_event' = FALSE
    /\ loops' = Append(loops, NewLoop)
    /\ UNCHANGED <<tasks, objs, task_queue, running_tasks, completed_tasks,
                   failed_tasks, retry_counts, total_tasks, completed_count,
                   failed_count, lock, futs, client>>
    /\ UNCHANGED <<dmVars, extVars>>

\* InstallationScheduler.pause
Pause ==
    /\ ClientReady
    /\ client.ctl < MaxCtl
    /\ status = "RUNNING"
    /\ status' = "PAUSED"
    /\ client' = [client EXCEPT !.ctl = @ + 1]
    /\ UNCHANGED <<tasks, objs, task_queue, running_tasks, completed_tasks,
                   failed_tasks, retry_counts, total_tasks, completed_count,
                   failed_count, executor, stop_event, lock, loops, futs>>
    /\ UNCHANGED <<dmVars, extVars>>

\* InstallationScheduler.resume
Resume ==
    /\ ClientReady
    /\ client.ctl < MaxCtl
    /\ status = "PAUSED"
    /\ status' = "RUNNING"
    /\ client' = [client EXCEPT !.ctl = @ + 1]
    /\ UNCHANGED <<tasks, objs, task_queue, running_tasks, completed_tasks,
                   failed_tasks, retry_counts, total_tasks, completed_count,
                   failed_count, executor, stop_event, lock, loops, futs>>
    /\ UNCHANGED <<dmVars, extVars>>

\* the test stop() makes before it stops anything
StopAllowed == status # "STOPPED"

\* InstallationScheduler.stop, lines 308-326: takes the lock, sets STOPPING and
\* the stop event; the wait for each running future is bounded (10 s), so it
\* always ends and the caller reaches the pool shutdown with the lock held.
StopBegin(wait) ==
    /\ ClientReady
    /\ client.ctl < MaxCtl
    /\ StopAllowed
    /\ status' = "STOPPING"
    /\ stop_event' = TRUE
    /\ lock' = "held"
    /\ client' = [pc |-> "shutdown", wait |-> wait, ctl |-> client.ctl + 1]
    /\ UNCHANGED <<tasks, objs, task_queue, running_tasks, completed_tasks,
                   failed_tasks, retry_counts, total_tasks, completed_count,
                   failed_count, executor, loops, futs>>
    /\ UNCHANGED <<dmVars, extVars>>

\* stop(), lines 329-331: self._executor.shutdown(wait=wait) marks the pool
\* shut down; with wait=False it returns at once and the reference is dropped,
\* with wait=True the caller joins the worker threads first.
StopShutdown ==
    /\ client.pc = "shutdown"
    /\ IF executor = 0 \/ ~client.wait
       THEN /\ client' = [client EXCEPT !.pc = "join"]
            /\ executor' = 0
       ELSE /\ client' = [client EXCEPT !.pc = "joinworkers"]
            /\ UNCHANGED executor
    /\ UNCHANGED <<status, tasks, objs, task_queue, running_tasks, completed_tasks,
                   failed_tasks, retry_counts, total_tasks, completed_count,
                   failed_count, stop_event, lock, loops, futs>>
    /\ UNCHANGED <<dmVars, extVars>>

\* shutdown() was called on the pool self._executor refers to and the
\* reference is still there
PoolShutDown == client.pc = "joinworkers"

\* a pool's worker threads have all exited: nothing queued, running or in a
\* done-callback on a worker
PoolDrained(e) ==
    \A k \in 1..Len(futs) :
        futs[k].ex = e => futs[k].st \notin {"queued", "running", "cb", "wsleep"}

\* stop(wait=True): shutdown(wait=True) joins the worker threads, unbounded
StopJoinWorkers ==
    /\ client.pc = "joinworkers"
    /\ PoolDrained(executor)
    /\ executor' = 0
    /\ client' = [client EXCEPT !.pc = "join"]
    /\ UNCHANGED <<status, tasks, objs, task_queue, running_tasks, completed_tasks,
                   failed_tasks, retry_counts, total_tasks, completed_count,
                   failed_count, stop_event, lock, loops, futs>>
    /\ UNCHANGED <<dmVars, extVars>>

\* stop(), lines 333-339: the join of the loop thread is bounded (5 s); then
\* STOPPED, and the lock is released
StopJoin ==
    /\ client.pc = "join"
    /\ status' = "STOPPED"
    /\ lock' = "free"
    /\ client' = [client EXCEPT !.pc = "idle", !.wait = FALSE]
    /\ UNCHANGED <<tasks, objs, task_queue, running_tasks, completed_tasks,
                   failed_tasks, retry_counts, total_tasks, completed_count,
                   failed_count, executor, stop_event, loops, futs>>
    /\ UNCHANGED <<dmVars, extVars>>

\* ------------------------------------------------------- failure and success
\* InstallationTask.set_status
SetStatus(os, o, st, err) == [os EXCEPT ![o].status = st, ![o].err = err]

\* InstallationScheduler._handle_task_failure up to the retry sleep: counts the
\* retry and resets the task to PENDING, or marks it FAILED.  hasMsg: the
\* error_message argument is a non-empty string.
HandleTaskFailure(os, o, hasMsg) ==
    LET id == os[o].id
        rc == RetryCount(id)
    IN  IF ShouldRetry(rc)
        THEN /\ retry_counts' = [retry_counts EXCEPT ![id] = rc + 1]
             /\ objs' = SetStatus(os, o, "PENDING", FALSE)
             /\ UNCHANGED <<failed_tasks, failed_count>>
        ELSE /\ objs' = SetStatus(os, o, "FAILED", hasMsg)
             /\ failed_tasks' = failed_tasks \cup {id}
             /\ failed_count' = failed_count + 1
             /\ UNCHANGED retry_counts

\* InstallationScheduler._handle_task_success
HandleTaskSuccess(o) ==
    /\ objs' = SetStatus(objs, o, "COMPLETED", FALSE)
    /\ completed_tasks' = completed_tasks \cup {objs[o].id}
    /\ completed_count' = completed_count + 1

\* ------------------------------------------------------ the scheduling loop
\* loop thread i moves on, dropping its task reference
Goto(i, pc) == [loops EXCEPT ![i] = [pc |-> pc, obj |-> NoTask]]

\* _scheduler_loop, lines 390-394: the stop test and the pause test at the top
\* of an iteration; while PAUSED the loop waits here
LoopTop(i) ==
    /\ loops[i].pc = "top"
    /\ IF stop_event
       THEN loops' = Goto(i, "exited")
       ELSE /\ status # "PAUSED"
            /\ loops' = Goto(i, "pop")
    /\ UNCHANGED <<status, tasks, objs, task_queue, running_tasks, completed_tasks,
                   failed_tasks, retry_counts, total_tasks, completed_count,
                   failed_count, executor, stop_event, lock, futs, client>>
    /\ UNCHANGED <<dmVars, extVars>>

\* the concurrency gate of the loop
PoolFull == Cardinality(running_tasks) >= max_concurrent_tasks

\* the gates of lines 412-428 that send a task back to the queue
Gated(o) == (enable_dependency_check /\ ~check_dependencies(o)) \/ PoolFull

\* _scheduler_loop, lines 396-428: an entry arrives in the blocking get(); the
\* task is looked up and gated on its status, its dependencies and the
\* concurrency limit; a gated task is put back
LoopTake(i) ==
    /\ loops[i].pc = "pop"
    /\ task_queue # <<>>
    /\ LET h == QueueHead(task_queue)
           e == task_queue[h]
           rest == Remove(task_queue, h)
           o == tasks[e[2]]
       IN  IF o = NoTask \/ objs[o].status # "PENDING"
           THEN /\ task_queue' = rest
                /\ loops' = Goto(i, "top")
           ELSE IF Gated(o)
           THEN /\ task_queue' = Append(rest, e)
                /\ loops' = Goto(i, "top")
           ELSE /\ task_queue' = rest
                /\ loops' = [loops EXCEPT ![i] = [pc |-> "exec", obj |-> o]]
    /\ UNCHANGED <<status, tasks, objs, running_tasks, completed_tasks,
                   failed_tasks, retry_counts, total_tasks, completed_count,
                   failed_count, executor, stop_event, lock, futs, client>>
    /\ UNCHANGED <<dmVars, extVars>>

\* _scheduler_loop, lines 399-404: get() timed out on an empty queue; the loop
\* takes the lock in _is_all_tasks_finished and leaves when all is finished
LoopEmpty(i) ==
    /\ loops[i].pc = "pop"
    /\ task_queue = <<>>
    /\ lock = "free"
    /\ loops' = Goto(i, IF AllTasksFinished THEN "exited" ELSE "top")
    /\ UNCHANGED <<status, tasks, objs, task_queue, running_tasks, completed_tasks,
                   failed_tasks, retry_counts, total_tasks, completed_count,
                   failed_count, executor, stop_event, lock, futs, client>>
    /\ UNCHANGED <<dmVars, extVars>>

\* _execute_task, lines 448-458: validate() returned False or raised; the loop
\* thread itself runs _handle_task_failure, without the lock
LoopValidationFails(i) ==
    /\ loops[i].pc = "exec"
    /\ enable_task_validation
    /\ LET o == loops[i].obj
       IN  /\ HandleTaskFailure([objs EXCEPT ![o].vfails = @ + 1], o, TRUE)
           /\ loops' = IF ShouldRetry(RetryCount(objs[o].id))
                       THEN [loops EXCEPT ![i].pc = "vsleep"]
                       ELSE Goto(i, "top")
    /\ UNCHANGED <<status, tasks, task_queue, running_tasks, completed_tasks,
                   total_tasks, completed_count, executor, stop_event, lock, futs,
                   client>>
    /\ UNCHANGED <<dmVars, extVars>>

\* _handle_task_failure, lines 573-577, on the loop thread: the retry sleep is
\* over and the task is put back
LoopRetryPut(i) ==
    /\ loops[i].pc = "vsleep"
    /\ task_queue' = Append(task_queue, QueueEntry(loops[i].obj))
    /\ loops' = Goto(i, "top")
    /\ UNCHANGED <<status, tasks, objs, running_tasks, completed_tasks,
                   failed_tasks, retry_counts, total_tasks, completed_count,
                   failed_count, executor, stop_event, lock, futs, client>>
    /\ UNCHANGED <<dmVars, extVars>>

\* a future as submit() returns it; by: the loop thread that has not yet
\* added its done-callback (0 once the callback is added)
NewFuture(o, e, i) ==
    [obj |-> o, ex |-> e, st |-> "queued", res |-> "none", by |-> i]

\* _execute_task, line 461: self._executor.submit(...).  With the pool gone
\* (None) or shut down the call raises, the loop's except clause sets ERROR
\* and the loop ends.
LoopSubmit(i) ==
    /\ loops[i].pc = "exec"
    /\ IF executor = 0 \/ PoolShutDown
       THEN /\ status' = "ERROR"
            /\ loops' = Goto(i, "exited")
            /\ UNCHANGED futs
       ELSE /\ futs' = Append(futs, NewFuture(loops[i].obj, executor, i))
            /\ loops' = [loops EXCEPT ![i].pc = "track"]
            /\ UNCHANGED status
    /\ UNCHANGED <<tasks, objs, task_queue, running_tasks, completed_tasks,
                   failed_tasks, retry_counts, total_tasks, completed_count,
                   failed_count, executor, stop_event, lock, client>>
    /\ UNCHANGED <<dmVars, extVars>>

\* the future a loop thread has submitted and not yet given its done-callback
OwnFuture(i) == CHOOSE k \in 1..Len(futs) : futs[k].by = i

\* _execute_task, lines 462-465: the future is recorded in _running_tasks and
\* the done-callback is added; on a future that is already done,
\* add_done_callback runs the callback at once, on the loop thread
LoopTrack(i) ==
    /\ loops[i].pc = "track"
    /\ running_tasks' = running_tasks \cup {objs[loops[i].obj].id}
    /\ LET k == OwnFuture(i)
       IN  IF futs[k].st = "done"
           THEN /\ loops' = Goto(i, "cb")
                /\ UNCHANGED futs
           ELSE /\ futs' = [futs EXCEPT ![k].by = 0]
                /\ loops' = Goto(i, "top")
    /\ UNCHANGED <<status, tasks, objs, task_queue, completed_tasks,
                   failed_tasks, retry_counts, total_tasks, completed_count,
                   failed_count, executor, stop_event, lock, client>>
    /\ UNCHANGED <<dmVars, extVars>>

\* ------------------------------------------------------------ pool workers
\* worker threads of pool e that are busy with a work item or its callback
Busy(e) ==
    Cardinality({k \in 1..Len(futs) :
                    futs[k].ex = e /\ futs[k].st \in {"running", "cb", "wsleep"}})

\* ThreadPoolExecutor: a free worker of the pool takes its oldest queued item;
\* _run_task, line 482: the task is set RUNNING
WorkerStart(k) ==
    /\ futs[k].st = "queued"
    /\ \A j \in 1..(k - 1) : ~(futs[j].ex = futs[k].ex /\ futs[j].st = "queued")
    /\ Busy(futs[k].ex) < max_concurrent_tasks
    /\ futs' = [futs EXCEPT ![k].st = "running"]
    /\ objs' = [SetStatus(objs, futs[k].obj, "RUNNING", FALSE)
                   EXCEPT ![futs[k].obj].runs = @ + 1]
    /\ UNCHANGED <<status, tasks, task_queue, running_tasks, completed_tasks,
                   failed_tasks, retry_counts, total_tasks, completed_count,
                   failed_count, executor, stop_event, lock, loops, client>>
    /\ UNCHANGED <<dmVars, extVars>>

Outcomes == {"ok", "fail", "raise"}

\* the status a task's execute() leaves behind: the tasks of tasks.py set
\* COMPLETED before they return True and FAILED (with a message) before they
\* return False; an exception that leaves execute() leaves the status as it is
AfterExecute(os, o, res) ==
    IF res = "ok" THEN SetStatus(os, o, "COMPLETED", FALSE)
    ELSE IF res = "fail" THEN SetStatus(os, o, "FAILED", TRUE)
    ELSE os

\* _run_task, lines 485-505: execute() ends and the future gets its result;
\* a done-callback already added runs next on this worker thread
WorkerFinish(k, res) ==
    /\ futs[k].st = "running"
    /\ objs' = AfterExecute(objs, futs[k].obj, res)
    /\ futs' = [futs EXCEPT ![k].res = res,
                            ![k].st = IF futs[k].by = 0 THEN "cb" ELSE "done"]
    /\ UNCHANGED <<status, tasks, task_queue, running_tasks, completed_tasks,
                   failed_tasks, retry_counts, total_tasks, completed_count,
                   failed_count, executor, stop_event, lock, loops, client>>
    /\ UNCHANGED <<dmVars, extVars>>

\* the thread that runs the done-callback of future k is ready to run it
CallbackReady(k) ==
    \/ futs[k].st = "cb"
    \/ futs[k].st = "done" /\ loops[futs[k].by].pc = "cb"

\* the loop thread that ran the callback inside add_done_callback goes on
AfterCallback(k) ==
    IF futs[k].st \in {"done", "lsleep"} THEN Goto(futs[k].by, "top") ELSE loops

\* InstallationScheduler._on_task_completed, under the lock, up to a retry sleep
OnTaskCompleted(k) ==
    /\ CallbackReady(k)
    /\ lock = "free"
    /\ LET id == objs[futs[k].obj].id
           t == tasks[id]
       IN  /\ running_tasks' = running_tasks \ {id}
           /\ IF t = NoTask
              THEN /\ futs' = Remove(futs, k)
                   /\ loops' = AfterCallback(k)
                   /\ UNCHANGED <<objs, completed_tasks, completed_count, failed_tasks,
                                  failed_count, retry_counts, lock>>
              ELSE IF futs[k].res = "ok"
              THEN /\ HandleTaskSuccess(t)
                   /\ futs' = Remove(futs, k)
                   /\ loops' = AfterCallback(k)
                   /\ UNCHANGED <<failed_tasks, failed_count, retry_counts, lock>>
              ELSE /\ HandleTaskFailure(objs, t, futs[k].res = "raise")
                   /\ UNCHANGED <<completed_tasks, completed_count>>
                   /\ IF ShouldRetry(RetryCount(id))
                      THEN /\ futs' = [futs EXCEPT
                                          ![k].st = IF futs[k].st = "cb" THEN "wsleep"
                                                    ELSE "lsleep"]
                           /\ lock' = "held"
                           /\ UNCHANGED loops
                      ELSE /\ futs' = Remove(futs, k)
                           /\ loops' = AfterCallback(k)
                           /\ UNCHANGED lock
    /\ UNCHANGED <<status, tasks, task_queue, total_tasks, executor, stop_event,
                   client>>
    /\ UNCHANGED <<dmVars, extVars>>

\* _handle_task_failure, lines 573-577, inside the callback: the retry sleep
\* is over, the task the callback looked up is put back and the lock is released
CallbackRetryPut(k) ==
    /\ futs[k].st \in {"wsleep", "lsleep"}
    /\ task_queue' = Append(task_queue, QueueEntry(tasks[objs[futs[k].obj].id]))
    /\ lock' = "free"
    /\ futs' = Remove(futs, k)
    /\ loops' = AfterCallback(k)
    /\ UNCHANGED <<status, tasks, objs, running_tasks, completed_tasks,
                   failed_tasks, retry_counts, total_tasks, completed_count,
                   failed_count, executor, stop_event, client>>
    /\ UNCHANGED <<dmVars, extVars>>

\* ---------------------------------------------------------- specification
Next ==
    \/ \E id \in TaskIds, prio \in Priorities, deps \in SUBSET TaskIds :
          id \notin deps /\ AddTask(id, prio, deps)
    \/ \E id \in TaskIds : RemoveTask(id)
    \/ Start
    \/ Pause
    \/ Resume
    \/ \E wait \in BOOLEAN : StopBegin(wait)
    \/ StopShutdown
    \/ StopJoinWorkers
    \/ StopJoin
    \/ \E i \in 1..Len(loops) : LoopTop(i)
    \/ \E i \in 1..Len(loops) : LoopTake(i)
    \/ \E i \in 1..Len(loops) : LoopEmpty(i)
    \/ \E i \in 1..Len(loops) : LoopValidationFails(i)
    \/ \E i \in 1..Len(loops) : LoopRetryPut(i)
    \/ \E i \in 1..Len(loops) : LoopSubmit(i)
    \/ \E i \in 1..Len(loops) : LoopTrack(i)
    \/ \E k \in 1..Len(futs) : WorkerStart(k)
    \/ \E k \in 1..Len(futs), res \in Outcomes : WorkerFinish(k, res)
    \/ \E k \in 1..Len(futs) : OnTaskCompleted(k)
    \/ \E k \in 1..Len(futs) : CallbackRetryPut(k)

Spec == Init /\ [][Next]_vars

\* the scheduler with a caller that adds its tasks, starts it once and then
\* leaves it alone; the loop thread and the workers are scheduled fairly
LoopStep(i) ==
    \/ LoopTop(i)
    \/ LoopTake(i)
    \/ LoopEmpty(i)
    \/ LoopValidationFails(i)
    \/ LoopRetryPut(i)
    \/ LoopSubmit(i)
    \/ LoopTrack(i)

AddBeforeStart(id, prio, deps) == status = "IDLE" /\ AddTask(id, prio, deps)

RunNext ==
    \/ \E id \in TaskIds, prio \in AllPriorities, deps \in SUBSET TaskIds :
          id \notin deps /\ AddBeforeStart(id, prio, deps)
    \/ Start
    \/ \E i \in 1..Len(loops) : LoopStep(i)
    \/ \E k \in 1..Len(futs) : WorkerStart(k)
    \/ \E k \in 1..Len(futs), res \in Outcomes : WorkerFinish(k, res)
    \/ \E k \in 1..Len(futs) : OnTaskCompleted(k)
    \/ \E k \in 1..Len(futs) : CallbackRetryPut(k)

RunSpec == Init /\ [][RunNext]_vars

LiveSpec ==
    /\ Init
    /\ [][RunNext]_vars
    /\ \A i \in 1..MaxLoops : WF_vars(i <= Len(loops) /\ LoopStep(i))
    /\ WF_vars(\E k \in 1..Len(futs) : WorkerStart(k))
    /\ WF_vars(\E k \in 1..Len(futs), res \in Outcomes : WorkerFinish(k, res))
    /\ WF_vars(\E k \in 1..Len(futs) : OnTaskCompleted(k))
    /\ WF_vars(\E k \in 1..Len(futs) : CallbackRetryPut(k))

\* ------------------------------------------------------------------ claims
\* the task objects the scheduler holds (self._tasks.values())
Held == {tasks[id] : id \in TaskIds} \ {NoTask}

\* the task objects a worker has been given: one future each
Submitted == {futs[k].obj : k \in 1..Len(futs)}

\* C1: with dependency checking enabled no task is submitted to the worker pool
\* or set RUNNING unless every task_id in its dependencies has reached
\* COMPLETED, i.e. _handle_task_success has recorded it in the completed set.
C1_DependenciesCompleted ==
    \A o \in 1..Len(objs) :
        (o \in Submitted \/ objs[o].status = "RUNNING")
            => \A d \in objs[o].deps : d \in completed_tasks

\* C1 witness: a task with a dependency is running
C1_Witness ==
    \E k \in 1..Len(futs) : futs[k].st = "running" /\ objs[futs[k].obj].deps # {}

\* C2: the number of tasks the scheduler holds whose status is RUNNING is at
\* most max_concurrent_tasks.
C2_RunningBounded ==
    Cardinality({o \in Held : objs[o].status = "RUNNING"}) <= max_concurrent_tasks

\* a task is terminally FAILED: FAILED with no execution of it in flight
TerminalFailed(o) == objs[o].status = "FAILED" /\ o \notin Submitted

\* the task's id was given to add_task once
AddedOnce(o) == \A p \in 1..Len(objs) : p # o => objs[p].id # objs[o].id

DepsOf(id) == IF tasks[id] = NoTask THEN {} ELSE objs[tasks[id]].deps

\* the ids reached from S along at most n dependency edges
RECURSIVE DepClosure(_, _)
DepClosure(S, n) ==
    IF n = 0 THEN S ELSE DepClosure(S \cup UNION {DepsOf(d) : d \in S}, n - 1)

\* every dependency names a task that was added, and no task depends on itself
\* through a chain of dependencies
DepsClosedAcyclic ==
    \A id \in TaskIds :
        tasks[id] # NoTask =>
            /\ \A d \in DepsOf(id) : tasks[d] # NoTask
            /\ id \notin DepClosure(DepsOf(id), NumIds)

\* every task held is COMPLETED or terminally FAILED
AllTerminal ==
    \A o \in Held : objs[o].status = "COMPLETED" \/ TerminalFailed(o)

LoopsExited == \A i \in 1..Len(loops) : loops[i].pc = "exited"

\* C4: once the scheduler is started, and is neither paused nor stopped, with
\* tasks whose dependencies are all added and acyclic, every task eventually
\* is COMPLETED or terminally FAILED and the scheduling loop exits.
C4_AllTasksFinishLoopExits ==
    [](status = "RUNNING" /\ DepsClosedAcyclic => <>(AllTerminal /\ LoopsExited))

\* C5: stop(wait=True) always returns: while the caller joins the pool's worker
\* threads, holding the lock, no worker of that pool is waiting for the lock
\* in a done-callback.
C5_StopReturns ==
    client.pc = "joinworkers" =>
        \A k \in 1..Len(futs) : futs[k].ex = executor => futs[k].st # "cb"

\* InstallationScheduler.get_progress
get_progress ==
    [total_tasks |-> total_tasks,
     completed_tasks |-> completed_count,
     failed_tasks |-> failed_count,
     pending_tasks |-> Cardinality({o \in Held : objs[o].status = "PENDING"}),
     running_tasks |-> Cardinality(running_tasks)]

\* C6: in every snapshot get_progress returns, completed + failed + pending +
\* running equals total.
C6_ProgressAddsUp ==
    lock = "free" =>
        get_progress.completed_tasks + get_progress.failed_tasks
            + get_progress.pending_tasks + get_progress.running_tasks
          = get_progress.total_tasks

\* the task status changes the life cycle allows
TaskTransitions ==
    {<<"PENDING", "RUNNING">>, <<"RUNNING", "COMPLETED">>, <<"RUNNING", "FAILED">>,
     <<"FAILED", "PENDING">>}

\* C7: a task's status changes only PENDING -> RUNNING -> COMPLETED or FAILED,
\* and FAILED -> PENDING for a retry; a COMPLETED task never changes again.
C7_TaskTransitions ==
    [][\A o \in 1..Len(objs) :
          objs'[o].status # objs[o].status
              => <<objs[o].status, objs'[o].status>> \in TaskTransitions]_vars

\* the scheduler status changes the state machine allows
SchedulerTransitions ==
    {<<"IDLE", "RUNNING">>, <<"RUNNING", "PAUSED">>, <<"PAUSED", "RUNNING">>,
     <<"RUNNING", "STOPPING">>, <<"PAUSED", "STOPPING">>, <<"STOPPING", "STOPPED">>,
     <<"RUNNING", "ERROR">>}

\* C8: the scheduler status changes only IDLE -> RUNNING, RUNNING <-> PAUSED,
\* RUNNING or PAUSED -> STOPPING -> STOPPED, and RUNNING -> ERROR; once ERROR
\* it never changes again.
C8_SchedulerTransitions ==
    [][status' # status => <<status, status'>> \in SchedulerTransitions]_vars

\* C9: while the status is PAUSED no task is submitted to the worker pool and
\* no task goes from PENDING to RUNNING.
C9_PausedSubmitsNothing ==
    [][status = "PAUSED" /\ status' = "PAUSED" =>
          /\ Len(futs') <= Len(futs)
          /\ \A o \in 1..Len(objs) :
                ~(objs[o].status = "PENDING" /\ objs'[o].status = "RUNNING")]_vars

\* index of the queue entry that is first in descending priority order and,
\* within the top priority, first inserted
FifoHead(q) ==
    CHOOSE i \in 1..Len(q) :
        \A j \in 1..Len(q) : q[i][1] < q[j][1] \/ (q[i][1] = q[j][1] /\ i <= j)

\* C10: the entry the loop dequeues next is of the highest priority queued and,
\* among the entries of that priority, the one inserted first.
C10_PriorityThenFifo ==
    (task_queue # <<>> /\ \E i \in 1..Len(loops) : loops[i].pc = "pop")
        => QueueHead(task_queue) = FifoHead(task_queue)

\* C11: remove_task removes only tasks that are not running: a task whose
\* status is RUNNING is never taken out of the tasks the scheduler holds.
C11_RunningNeverRemoved ==
    [][\A id \in TaskIds :
          (tasks[id] # NoTask /\ tasks'[id] = NoTask)
              => objs[tasks[id]].status # "RUNNING"]_vars

\* C12: after add_task with a task_id that is already held, the scheduler holds
\* one task for that id - the new one - and the total_tasks of get_progress
\* equals the number of tasks held.
C12_ReAddReplaces ==
    [][\A id \in TaskIds :
          (tasks[id] # NoTask /\ tasks'[id] # NoTask /\ tasks'[id] # tasks[id])
              => /\ tasks'[id] = Len(objs')
                 /\ get_progress'.total_tasks = Cardinality(Held')]_vars

\* the message a task was failed with is not empty: it is the message the
\* task keeps, and the condition under which _handle_task_failure, lines
\* 585-588, invokes the error callback
ErrorSurfaced(o) == objs[o].err

\* C13: every terminally FAILED task is in the failed set, keeps an error
\* message, and had the error callback invoked for it, whether execute()
\* returned false or raised.
C13_FailureSurfaced ==
    \A o \in Held :
        (TerminalFailed(o) /\ objs[o].runs >= 1)
            => objs[o].id \in failed_tasks /\ ErrorSurfaced(o)

\* _handle_task_success, lines 550-553: the aggregate finished callback is
\* invoked when _is_all_tasks_finished holds after the task was set COMPLETED
FinishedFires == AllTasksFinished

\* no task the scheduler holds is PENDING or RUNNING
NoneOutstanding ==
    \A o \in Held : objs[o].status \notin {"PENDING", "RUNNING"}

\* C14: when _handle_task_success has recorded a success and no task held is
\* PENDING or RUNNING, the aggregate finished callback is invoked.
C14_LastSuccessFiresFinished ==
    [][(completed_count' = completed_count + 1 /\ NoneOutstanding')
          => FinishedFires']_vars

\* ------------------------------------------------------- DownloadManager
\* sum of f over the set S
RECURSIVE SumOver(_, _)
SumOver(f, S) ==
    IF S = {} THEN 0
    ELSE LET x == CHOOSE y \in S : TRUE IN f[x] + SumOver(f, S \ {x})

\* the tasks whose total size is known
KnownSize(total) == {t \in Files : total[t] > 0}

\* DownloadManager._update_overall_progress: the byte-weighted progress it
\* emits, or the value emitted before when no size is known yet
OverallProgress(down, total) ==
    IF KnownSize(total) = {} THEN progress
    ELSE (SumOver(down, KnownSize(total)) * 100) \div SumOver(total, KnownSize(total))

\* asyncio.Semaphore(self._concurrent_count): the number of permits
Semaphore_one_more(n) == n + 1

Semaphore_no_permit(n) == 0

Semaphore(n) == n

\* the loop test of _download_single_task one off
DmShouldAttempt_one_less(rc) == rc < dm_max_retries

\* the loop test of _download_single_task and the retry test after a failure
DmShouldAttempt(rc) == rc <= dm_max_retries

\* the backoff before the k-th retry
RetryDelay(k) == IF 2 ^ (k - 1) < 10 THEN 2 ^ (k - 1) ELSE 10

\* the error callback for every permanent failure
FirstFailure_every(n) == n >= 1

\* the test that surfaces the first permanent failure only
FirstFailure(n) == n = 1

\* the final outcome decided on the number of failures being above one
FinalOutcome_above_one(failed) ==
    IF Cardinality(failed) > 1
    THEN [ev |-> "aggregate_error", count |-> Cardinality(failed), ids |-> failed]
    ELSE [ev |-> "finished", count |-> 0, ids |-> {}]

\* schedule(), lines 474-487: the final event, from the tasks marked
\* permanently failed
FinalOutcome(failed) ==
    IF Cardinality(failed) > 0
    THEN [ev |-> "aggregate_error", count |-> Cardinality(failed), ids |-> failed]
    ELSE [ev |-> "finished", count |-> 0, ids |-> {}]

\* a coroutine returns: its outcome is set and, leaving the async with block,
\* it gives its permit back
Return(t, out) == [coros EXCEPT ![t].pc = "done", ![t].out = out]

\* a new attempt begins: download_file is awaited
Attempt(t) == [coros EXCEPT ![t].pc = "attempt", ![t].attempts = @ + 1]

\* the manager is constructed with a list of files
DmInit ==
    /\ SchedulerConstructed
    /\ DmConstructed
    /\ ExtConstructed
    /\ files \in [Files -> 1..MaxSize]

\* schedule(), lines 445-459: the semaphore and one coroutine per file are
\* created, then gather is awaited
Schedule ==
    /\ sched = "idle"
    /\ sched' = "gather"
    /\ semaphore' = Semaphore(concurrent_count)
    /\ coros' = [t \in Files |-> [coros[t] EXCEPT !.pc = "sem"]]
    /\ UNCHANGED <<files, task_retry_count, task_failed_permanently,
                   dm_failed_tasks, is_cancelled, task_downloaded, task_total,
                   progress, events>>
    /\ UNCHANGED <<schedVars, extVars>>

\* _download_single_task, lines 514-539: the coroutine gets a permit; when the
\* manager is cancelled it returns at once, otherwise it sets up its retry
\* count and starts the first attempt
Acquire(t) ==
    /\ coros[t].pc = "sem"
    /\ semaphore > 0
    /\ IF is_cancelled
       THEN /\ coros' = Return(t, "cancelled")
            /\ UNCHANGED <<semaphore, task_retry_count>>
       ELSE /\ task_retry_count' = [task_retry_count EXCEPT ![t] = 0]
            /\ IF DmShouldAttempt(0)
               THEN /\ coros' = Attempt(t)
                    /\ semaphore' = semaphore - 1
               ELSE /\ coros' = Return(t, "none")
                    /\ UNCHANGED semaphore
    /\ UNCHANGED <<files, sched, task_failed_permanently, dm_failed_tasks,
                   is_cancelled, task_downloaded, task_total, progress, events>>
    /\ UNCHANGED <<schedVars, extVars>>

\* download_file, lines 217-234, with on_bytes_downloaded and on_progress: a
\* chunk is written and the overall progress is emitted
Chunk(t) ==
    /\ coros[t].pc = "attempt"
    /\ task_downloaded[t] < files[t]
    /\ LET down == [task_downloaded EXCEPT ![t] = @ + 1]
           total == [task_total EXCEPT ![t] = files[t]]
       IN  /\ task_downloaded' = down
           /\ task_total' = total
           /\ progress' = OverallProgress(down, total)
    /\ UNCHANGED <<files, sched, coros, semaphore, task_retry_count,
                   task_failed_permanently, dm_failed_tasks, is_cancelled, events>>
    /\ UNCHANGED <<schedVars, extVars>>

\* download_file, lines 276-285, and _download_single_task, lines 541-546: the
\* stream has ended - the server decides after how many chunks - the download
\* returns and the coroutine with it
AttemptOk(t) ==
    /\ coros[t].pc = "attempt"
    /\ coros' = Return(t, "ok")
    /\ semaphore' = semaphore + 1
    /\ progress' = OverallProgress(task_downloaded, task_total)
    /\ UNCHANGED <<files, sched, task_retry_count, task_failed_permanently,
                   dm_failed_tasks, is_cancelled, task_downloaded, task_total,
                   events>>
    /\ UNCHANGED <<schedVars, extVars>>

\* _download_single_task, lines 548-602: download_file raised; the retry count
\* goes up and the coroutine either sleeps before the next attempt or marks
\* the task permanently failed, surfacing the first such failure
AttemptFails(t) ==
    /\ coros[t].pc = "attempt"
    /\ LET rc == task_retry_count[t] + 1
       IN  /\ task_retry_count' = [task_retry_count EXCEPT ![t] = rc]
           /\ IF DmShouldAttempt(rc)
              THEN /\ coros' = [coros EXCEPT ![t].pc = "backoff",
                                             ![t].waits = Append(@, RetryDelay(rc))]
                   /\ UNCHANGED <<semaphore, task_failed_permanently,
                                  dm_failed_tasks, events>>
              ELSE /\ task_failed_permanently' =
                          [task_failed_permanently EXCEPT ![t] = TRUE]
                   /\ dm_failed_tasks' = dm_failed_tasks + 1
                   /\ events' = IF FirstFailure(dm_failed_tasks + 1)
                                THEN Append(events, [ev |-> "error", count |-> 1,
                                                     ids |-> {t}])
                                ELSE events
                   /\ coros' = Return(t, "failed")
                   /\ semaphore' = semaphore + 1
    /\ UNCHANGED <<files, sched, is_cancelled, task_downloaded, task_total,
                   progress>>
    /\ UNCHANGED <<schedVars, extVars>>

\* _download_single_task, lines 526-539, after the sleep: the coroutine
\* returns when the manager is cancelled; otherwise _clear_task_progress
\* resets the task's bytes, the overall progress is emitted, and the next
\* attempt begins
BackoffOver(t) ==
    /\ coros[t].pc = "backoff"
    /\ IF is_cancelled
       THEN /\ coros' = Return(t, "cancelled")
            /\ semaphore' = semaphore + 1
            /\ UNCHANGED <<task_downloaded, progress>>
       ELSE /\ coros' = Attempt(t)
            /\ task_downloaded' = [task_downloaded EXCEPT ![t] = 0]
            /\ progress' = OverallProgress([task_downloaded EXCEPT ![t] = 0],
                                           task_total)
            /\ UNCHANGED semaphore
    /\ UNCHANGED <<files, sched, task_retry_count, task_failed_permanently,
                   dm_failed_tasks, is_cancelled, task_total, events>>
    /\ UNCHANGED <<schedVars, extVars>>

\* DownloadManager.cancel
Cancel ==
    /\ sched = "gather"
    /\ ~is_cancelled
    /\ is_cancelled' = TRUE
    /\ UNCHANGED <<files, sched, coros, semaphore, task_retry_count,
                   task_failed_permanently, dm_failed_tasks, task_downloaded,
                   task_total, progress, events>>
    /\ UNCHANGED <<schedVars, extVars>>

\* the tasks marked permanently failed
PermanentlyFailed == {t \in Files : task_failed_permanently[t]}

\* schedule(), lines 464-487: gather has returned and the final event is
\* emitted
GatherDone ==
    /\ sched = "gather"
    /\ \A t \in Files : coros[t].pc = "done"
    /\ events' = Append(events, FinalOutcome(PermanentlyFailed))
    /\ sched' = "returned"
    /\ UNCHANGED <<files, coros, semaphore, task_retry_count,
                   task_failed_permanently, dm_failed_tasks, is_cancelled,
                   task_downloaded, task_total, progress>>
    /\ UNCHANGED <<schedVars, extVars>>

\* the steps of the download coroutines and of schedule()
DmStep ==
    \/ Schedule
    \/ \E t \in Files : Acquire(t)
    \/ \E t \in Files : Chunk(t)
    \/ \E t \in Files : AttemptOk(t)
    \/ \E t \in Files : AttemptFails(t)
    \/ \E t \in Files : BackoffOver(t)
    \/ GatherDone

DmNext == DmStep \/ Cancel

DmSpec == DmInit /\ [][DmNext]_vars

\* the event loop runs every coroutine that is ready; the files are of one
\* chunk each
DmLiveSpec == Init /\ [][DmNext]_vars /\ WF_vars(DmStep)

\* every task was downloaded or is marked permanently failed
AllDownloadedOrFailed ==
    \A t \in Files : coros[t].out = "ok" \/ task_failed_permanently[t]

\* C15 as claimed: when schedule() has returned, every task was downloaded or
\* is marked permanently failed, also when cancel() was called.
C15_ReturnsAllTerminal == sched = "returned" => AllDownloadedOrFailed

\* C15 amended: schedule() always returns; when it returns without cancel()
\* having been called every task was downloaded or is marked permanently
\* failed, and after a cancel() the tasks it left are the ones that returned
\* on seeing the cancel flag.
C15_ReturnsAccounted ==
    /\ (sched = "gather") ~> (sched = "returned")
    /\ [](sched = "returned" =>
            /\ ~is_cancelled => AllDownloadedOrFailed
            /\ \A t \in Files :
                  \/ coros[t].out = "ok"
                  \/ task_failed_permanently[t] /\ coros[t].out = "failed"
                  \/ is_cancelled /\ coros[t].out = "cancelled")

\* C15 witness: schedule() has returned after a cancel(), with one task
\* downloaded, one permanently failed and one left
C15_Witness ==
    /\ sched = "returned"
    /\ \E t, u, v \in Files :
          coros[t].out = "ok" /\ coros[u].out = "failed" /\ coros[v].out = "cancelled"

\* the final events emitted so far
IsFinal(e) == e.ev \in {"finished", "aggregate_error"}

FinalEvents == SelectSeq(events, IsFinal)

\* C16: a schedule() run emits one final outcome, when it returns: finished if
\* no task is permanently failed, otherwise one aggregate error with the count
\* and the ids of the permanently failed tasks; never both.
C16_OneFinalOutcome ==
    /\ sched # "returned" => FinalEvents = <<>>
    /\ sched = "returned" =>
          /\ Len(FinalEvents) = 1
          /\ PermanentlyFailed = {} => FinalEvents[1].ev = "finished"
          /\ PermanentlyFailed # {} =>
                FinalEvents[1] = [ev |-> "aggregate_error",
                                  count |-> Cardinality(PermanentlyFailed),
                                  ids |-> PermanentlyFailed]

\* C16 witness: schedule() has returned with two tasks permanently failed and
\* one downloaded
C16_Witness ==
    /\ sched = "returned"
    /\ Cardinality(PermanentlyFailed) = 2
    /\ \E t \in Files : coros[t].out = "ok"

\* the waits before the retries 1..n
RECURSIVE Backoffs(_)
Backoffs(n) ==
    IF n = 0 THEN <<>>
    ELSE Append(Backoffs(n - 1), IF 2 ^ (n - 1) < 10 THEN 2 ^ (n - 1) ELSE 10)

\* C17: a download is never attempted more than max_retries + 1 times; the
\* wait before its k-th retry is min(2^(k-1), 10) seconds; a task is marked
\* permanently failed exactly after max_retries + 1 failed attempts, and then
\* no attempt is in progress or to come for it.
C17_AttemptsAndBackoff ==
    \A t \in Files :
        /\ coros[t].attempts <= dm_max_retries + 1
        /\ coros[t].waits = Backoffs(Len(coros[t].waits))
        /\ task_failed_permanently[t] =>
              /\ coros[t].attempts = dm_max_retries + 1
              /\ Len(coros[t].waits) = dm_max_retries
              /\ coros[t].pc = "done"
        /\ (coros[t].out = "failed") = task_failed_permanently[t]

\* C17 witness: a task is permanently failed after retries whose waits reached
\* the cap of 10 seconds
C17_Witness ==
    \E t \in Files :
        /\ task_failed_permanently[t]
        /\ Len(coros[t].waits) >= 5
        /\ coros[t].waits[4] = 8
        /\ coros[t].waits[5] = 10

\* the error events emitted while the downloads are in progress
IsError(e) == e.ev = "error"

ErrorEvents == SelectSeq(events, IsError)

\* C18: while a run is in progress the error callback is invoked for the first
\* task that fails permanently, in the step that marks it, and for no later
\* one; the step that marks a task leaves every other coroutine as it is, and
\* without a cancel() no task ends other than downloaded or permanently failed.
C18_FirstFailureOnly ==
    /\ [](/\ Len(ErrorEvents) = (IF PermanentlyFailed = {} THEN 0 ELSE 1)
          /\ \A t \in Files :
                (~is_cancelled /\ coros[t].pc = "done")
                    => coros[t].out \in {"ok", "failed"})
    /\ [][\A t \in Files :
            (~task_failed_permanently[t] /\ task_failed_permanently'[t]) =>
                /\ events' = IF PermanentlyFailed = {}
                             THEN Append(events, [ev |-> "error", count |-> 1,
                                                  ids |-> {t}])
                             ELSE events
                /\ \A u \in Files \ {t} : coros'[u] = coros[u]]_vars

\* C18 witness: two tasks are permanently failed while a third is still being
\* downloaded
C18_Witness ==
    /\ Cardinality(PermanentlyFailed) = 2
    /\ \E t \in Files : coros[t].pc = "attempt"

\* the tasks with a download attempt in flight, a wait for a retry included
InFlight == {t \in Files : coros[t].pc \in {"attempt", "backoff"}}

\* C19: during schedule() at most concurrent_count download attempts are in
\* flight, tasks waiting in their retry backoff counted as in flight.
C19_InFlightBounded == Cardinality(InFlight) <= concurrent_count

\* C19 witness: concurrent_count attempts are in flight, one of them in its
\* backoff, and another task waits for a permit
C19_Witness ==
    /\ Cardinality(InFlight) = concurrent_count
    /\ \E t \in Files : coros[t].pc = "backoff"
    /\ \E t \in Files : coros[t].pc = "sem"

\* a retried task's contribution is reset to zero in this step
ResetStep ==
    \E t \in Files : task_downloaded[t] > 0 /\ task_downloaded'[t] = 0

\* C20: within a run the overall progress values emitted never decrease,
\* except in the step that resets a retried task's contribution to zero.
C20_ProgressMonotone ==
    [][(progress # NoProgress /\ progress' < progress) => ResetStep]_vars

\* ------------------------------------------------- FileDownloader.download_file
\* One call of download_file on the event loop.  The server decides the
\* Content-Length header, the bytes of the body, where the body ends and
\* whether the request or the stream fails; cancel() may be called while the
\* call is suspended.  The callbacks of the callback group do not raise.
fdFrame == <<schedVars, dmVars, mc, cv, ct, pool, dc>>

Ev(ev, val) == [ev |-> ev, val |-> val]

\* possible contents of a response body or of a file
Contents == UNION {[1..n -> Bytes] : n \in 0..FdMaxBody}

RECURSIVE Fold(_)
Fold(s) == IF s = <<>> THEN 0 ELSE 2 * Fold(SubSeq(s, 1, Len(s) - 1)) + s[Len(s)]

\* hashlib.sha1 over the bytes of a file, fed block by block: a digest that
\* differs for every two contents and is never the empty string
Sha1(s) == 1 + Fold(s)

Digests == {Sha1(c) : c \in Contents}

\* lines 199-202: file.size when positive, else the Content-Length header
TotalSize(size, content_length) == IF size > 0 THEN size ELSE content_length

\* line 233: int((downloaded_size / total_size) * 100)
Percentage(downloaded, total) == (downloaded * 100) \div total

\* the success path with the final speed report left out
OnSuccess_no_speed == <<Ev("progress", 100), Ev("finished", 0)>>

\* lines 276-281: what a call reports once the stream has ended
OnSuccess == <<Ev("progress", 100), Ev("speed", 0), Ev("finished", 0)>>

\* lines 287-303: every exception is reported by one error event and re-raised
FdRaise == [fd EXCEPT !.pc = "raised", !.events = Append(@, Ev("error", 0))]

FdInit ==
    /\ SchedulerConstructed
    /\ DmConstructed
    /\ files = [t \in Files |-> 1]
    /\ DcConstructed
    /\ McConstructed
    /\ CvConstructed
    /\ CtConstructed
    /\ PoolConstructed
    /\ fd \in {FdNew(size, sha1, valid) :
                 size \in 0..FdMaxSize, sha1 \in {NoSha} \cup Digests,
                 valid \in BOOLEAN}

\* lines 172-193: the cancel flag is cleared and the fields are validated; a
\* file without url or path raises before start is reported
FdCall ==
    /\ fd.pc = "idle"
    /\ fd' = IF fd.valid
             THEN [fd EXCEPT !.pc = "open", !.is_cancelled = FALSE,
                             !.events = Append(@, Ev("start", 0))]
             ELSE [FdRaise EXCEPT !.is_cancelled = FALSE]
    /\ UNCHANGED fdFrame

\* FileDownloader.cancel, called while download_file is suspended
FdCancel ==
    /\ fd.pc \in {"open", "stream"}
    /\ ~fd.is_cancelled
    /\ fd' = [fd EXCEPT !.is_cancelled = TRUE]
    /\ UNCHANGED fdFrame

\* lines 195-219: the response arrives with a success status, the total size
\* is fixed and the file is opened for writing, which empties it
FdResponse ==
    /\ fd.pc = "open"
    /\ \E content_length \in 0..FdMaxBody :
          fd' = [fd EXCEPT !.pc = "stream",
                           !.total = TotalSize(fd.size, content_length),
                           !.written = <<>>]
    /\ UNCHANGED fdFrame

\* lines 255-274: an error status, a timeout or a connection failure
FdRequestFails ==
    /\ fd.pc = "open"
    /\ fd' = FdRaise
    /\ UNCHANGED fdFrame

\* lines 220-245: one block of the body arrives; on the cancel flag the call
\* raises, else the block is written and reported, with a speed report when
\* a second has passed
FdChunk ==
    /\ fd.pc = "stream"
    /\ Len(fd.written) < FdMaxBody
    /\ \E b \in Bytes, second_passed \in BOOLEAN, speed \in 0..1 :
          LET downloaded == Len(fd.written) + 1
              reports ==
                  <<Ev("bytes_downloaded", downloaded)>>
                  \o (IF fd.total > 0
                      THEN <<Ev("progress", Percentage(downloaded, fd.total))>>
                      ELSE <<>>)
                  \o (IF second_passed THEN <<Ev("speed", speed)>> ELSE <<>>)
          IN  fd' = IF fd.is_cancelled
                    THEN FdRaise
                    ELSE [fd EXCEPT !.written = Append(@, b),
                                    !.events = @ \o reports]
    /\ UNCHANGED fdFrame

\* lines 247-253 and 266-274: the write or the connection fails in mid-stream
FdStreamFails ==
    /\ fd.pc = "stream"
    /\ fd' = FdRaise
    /\ UNCHANGED fdFrame

\* lines 276-285: the body has ended; the call reports and returns
FdStreamEnds ==
    /\ fd.pc = "stream"
    /\ fd' = [fd EXCEPT !.pc = "returned", !.events = @ \o OnSuccess]
    /\ UNCHANGED fdFrame

FdStep ==
    \/ FdCall
    \/ FdResponse
    \/ FdRequestFails
    \/ FdChunk
    \/ FdStreamFails
    \/ FdStreamEnds

FdNext == FdStep \/ FdCancel

FdSpec == FdInit /\ [][FdNext]_vars

\* the server answers or the timeouts of the client expire: the call goes on
FdLiveSpec == FdInit /\ [][FdNext]_vars /\ WF_vars(FdStep)

\* ------------------------------------------------------------ claims C21-C23
\* C21: a download_file call for a file with a declared sha1 returns
\* successfully only if the SHA1 of the bytes written to the path equals the
\* declared value.
C21_Sha1Verified ==
    (fd.pc = "returned" /\ fd.sha1 # NoSha) => Sha1(fd.written) = fd.sha1

\* C22: a download_file call for a file with a declared size greater than zero
\* returns successfully only if the number of bytes written equals that size,
\* whatever the server sends.
C22_SizeVerified ==
    (fd.pc = "returned" /\ fd.size > 0) => Len(fd.written) = fd.size

\* how often the call has reported an event of this kind
FdCount(ev) == Cardinality({i \in 1..Len(fd.events) : fd.events[i].ev = ev})

FdStarted == FdCount("start") > 0

FdEnded == fd.pc \in {"returned", "raised"}

\* the last n events the call reported
FdLast(n) == SubSeq(fd.events, Len(fd.events) - n + 1, Len(fd.events))

FdTerminalEvents ==
    /\ fd.pc \in {"open", "stream"} =>
          FdCount("finished") = 0 /\ FdCount("error") = 0
    /\ fd.pc = "returned" =>
          /\ Len(fd.events) >= 4
          /\ FdLast(3) = <<[ev |-> "progress", val |-> 100],
                           [ev |-> "speed", val |-> 0],
                           [ev |-> "finished", val |-> 0]>>
          /\ FdCount("finished") = 1
          /\ FdCount("error") = 0
    /\ (fd.pc = "raised" /\ FdStarted) =>
          /\ FdLast(1) = <<[ev |-> "error", val |-> 0]>>
          /\ FdCount("error") = 1
          /\ FdCount("finished") = 0

mcFrame == <<schedVars, dmVars, fd, cv, ct, pool, dc>>

\* the content every task of the run is meant to have
Wanted == <<1>>

\* what a path can hold before the run: nothing, the wanted content, other
\* content of the same size, content of another size
DiskStates ==
    {[exists |-> FALSE, content |-> <<>>]}
    \cup {[exists |-> TRUE, content |-> c] : c \in {Wanted, <<2>>, <<1, 1>>}}

\* what a task can declare
Declared ==
    {[size |-> n, sha1 |-> h] : n \in {0, Len(Wanted)}, h \in {NoSha, Sha1(Wanted)}}

\* _verify_file_sha1
verify_file_sha1(content, expected_sha1) == Sha1(content) = expected_sha1

\* _is_file_valid
is_file_valid(file, expected_size, expected_sha1) ==
    /\ file.exists
    /\ expected_size > 0 => Len(file.content) = expected_size
    /\ expected_sha1 # NoSha => verify_file_sha1(file.content, expected_sha1)

\* the tasks _preprocess_tasks counts as skipped
Skippable ==
    {f \in McFiles : is_file_valid(mc.disk[f], mc.decl[f].size, mc.decl[f].sha1)}

\* lines 191-194: int((skipped / total) * 100), reported when a task was skipped
SkipProgress(skipped, total) ==
    IF skipped > 0 THEN (skipped * 100) \div total ELSE NoProgress

\* lines 283-291: the gathered results that are not exceptions are counted
success_count ==
    Cardinality({f \in mc.tasks : mc.coros[f].result \in BOOLEAN})

McInit ==
    /\ SchedulerConstructed
    /\ DmConstructed
    /\ files = [t \in Files |-> 1]
    /\ DcConstructed
    /\ FdConstructed
    /\ CvConstructed
    /\ CtConstructed
    /\ PoolConstructed
    /\ mc \in {McNew(disk, decl) : disk \in [McFiles -> DiskStates],
                                   decl \in [McFiles -> Declared]}

\* download_minecraft_files up to the gather of _execute_downloads: start is
\* reported, _preprocess_tasks replaces self._tasks by the tasks to download,
\* then the run ends at once (lines 130-134, or lines 260-262 and 139-144) or
\* one coroutine per remaining task is created
McDownload ==
    /\ mc.pc = "idle"
    /\ LET skipped == Cardinality(Skippable)
           tasks_to_download == McFiles \ Skippable
           scanned == [mc EXCEPT !.tasks = tasks_to_download,
                                 !.skipped_tasks = skipped,
                                 !.progress = SkipProgress(skipped, NumMcFiles),
                                 !.events = Append(@, "start")]
       IN  mc' = IF skipped = Cardinality(tasks_to_download)
                 THEN [scanned EXCEPT !.pc = "returned", !.progress = 100,
                                      !.events = Append(@, "finished"),
                                      !.ret = "true"]
                 ELSE IF tasks_to_download = {}
                 THEN [scanned EXCEPT !.pc = "returned",
                                      !.events = Append(@, "finished"),
                                      !.ret = "true"]
                 ELSE [scanned EXCEPT
                          !.pc = "downloads",
                          !.semaphore = mc_concurrent_count,
                          !.coros = [f \in McFiles |->
                                        IF f \in tasks_to_download
                                        THEN [mc.coros[f] EXCEPT !.pc = "sem"]
                                        ELSE mc.coros[f]]]
    /\ UNCHANGED mcFrame

\* lines 148-151: the pre-scan raises (a directory cannot be created)
McPreprocessFails ==
    /\ mc.pc = "idle"
    /\ mc' = [mc EXCEPT !.pc = "returned",
                        !.events = @ \o <<"start", "error">>,
                        !.ret = "false"]
    /\ UNCHANGED mcFrame

\* lines 303-314: a coroutine gets a permit; on the cancel flag it returns
\* False and gives the permit back, else it awaits download_file
McAcquire(f) ==
    /\ mc.pc = "downloads"
    /\ mc.coros[f].pc = "sem"
    /\ mc.semaphore > 0
    /\ mc' = IF mc.is_cancelled
             THEN [mc EXCEPT !.coros[f].pc = "done", !.coros[f].result = FALSE]
             ELSE [mc EXCEPT !.coros[f].pc = "run", !.coros[f].calls = @ + 1,
                             !.semaphore = @ - 1]
    /\ UNCHANGED mcFrame

\* lines 314-317: download_file returns
McFileOk(f) ==
    /\ mc.coros[f].pc = "run"
    /\ mc' = [mc EXCEPT !.coros[f].pc = "done", !.coros[f].result = TRUE,
                        !.completed_tasks = @ + 1, !.semaphore = @ + 1]
    /\ UNCHANGED mcFrame

\* lines 319-322: download_file raises
McFileFails(f) ==
    /\ mc.coros[f].pc = "run"
    /\ mc' = [mc EXCEPT !.coros[f].pc = "done", !.coros[f].result = FALSE,
                        !.failed_tasks = @ + 1, !.semaphore = @ + 1]
    /\ UNCHANGED mcFrame

\* lines 281-298 and 139-146: gather returns, the results are counted and the
\* run ends
McGatherDone ==
    /\ mc.pc = "downloads"
    /\ \A f \in mc.tasks : mc.coros[f].pc = "done"
    /\ mc' = IF success_count = Cardinality(mc.tasks)
             THEN [mc EXCEPT !.pc = "returned", !.events = Append(@, "finished"),
                             !.ret = "true"]
             ELSE [mc EXCEPT !.pc = "returned", !.ret = "false"]
    /\ UNCHANGED mcFrame

\* MinecraftDownloadManager.cancel
McCancel ==
    /\ mc.pc # "returned"
    /\ ~mc.is_cancelled
    /\ mc' = [mc EXCEPT !.is_cancelled = TRUE]
    /\ UNCHANGED mcFrame

McNext ==
    \/ McDownload
    \/ McPreprocessFails
    \/ \E f \in McFiles : McAcquire(f)
    \/ \E f \in McFiles : McFileOk(f)
    \/ \E f \in McFiles : McFileFails(f)
    \/ McGatherDone
    \/ McCancel

McSpec == McInit /\ [][McNext]_vars

\* ------------------------------------------------------------ claims C24-C26
McFinished == \E i \in 1..Len(mc.events) : mc.events[i] = "finished"

\* C24: download_minecraft_files starts a download for exactly the tasks that
\* fail the skip test: when finished is reported, each of the n - k tasks not
\* skipped has had one download started, and no skipped task has.
C24_DownloadsNonSkipped ==
    McFinished =>
        \A f \in McFiles :
            mc.coros[f].calls = (IF f \in Skippable THEN 0 ELSE 1)

\* C25: download_minecraft_files returns true and reports finished only if
\* every task not skipped was downloaded successfully; if a download fails it
\* returns false and does not report finished.
C25_TrueOnlyIfAllDownloaded ==
    /\ (mc.ret = "true" \/ McFinished) =>
          \A f \in McFiles \ Skippable :
              mc.coros[f].pc = "done" /\ mc.coros[f].result
    /\ (mc.pc = "returned" /\ mc.failed_tasks > 0) =>
          mc.ret = "false" /\ ~McFinished

\* C26: a task whose download fails is started again, up to max_retries
\* times, before it is counted as failed.
C26_RetriedBeforeFailed ==
    \A f \in McFiles :
        (mc.coros[f].pc = "done" /\ mc.coros[f].calls > 0 /\ ~mc.coros[f].result)
            => mc.coros[f].calls = mc_max_retries + 1

\* --------------------------------------------------- MultiTaskCallbackConverter
\* The converter and the calls made on it: add_task, get_callback_dict, reset
\* by the owner, and setStatus, setMax, setProgress by the installer through
\* the adapter, whose three functions are bound to the converter and act on
\* the task type that is current when they are called.
cvFrame == <<schedVars, dmVars, fd, mc, ct, pool, dc>>

\* an event fired on one group of the InstallationCallbackGroup
CvEv(grp, ev, val) == [grp |-> grp, ev |-> ev, val |-> val]

Registered == {t \in TaskTypes : cv.task_states[t].reg}

\* lines 348-351: a task's own percentage
TaskProgress(state) ==
    IF state.max_progress > 0
    THEN (state.progress * 100) \div state.max_progress
    ELSE 0

RECURSIVE SumProgress(_, _)
SumProgress(states, S) ==
    IF S = {} THEN 0
    ELSE LET t == CHOOSE x \in S : TRUE
         IN  TaskProgress(states[t]) + SumProgress(states, S \ {t})

\* lines 344-359: the overall percentage, every weight being the default 1.0
OverallProgressOf(states) ==
    LET reg == {t \in TaskTypes : states[t].reg}
    IN  IF reg = {} THEN 0 ELSE SumProgress(states, reg) \div Cardinality(reg)

\* add_task, lines 288-294
AddedTask(c, t) ==
    [c EXCEPT !.task_states[t] = NewTaskState, !.total_tasks = @ + 1]

\* a call on the converter itself: no adapter is involved
CvCalled(c) == [c EXCEPT !.calls = @ + 1, !.via = NoType]

\* a call made through the adapter that get_callback_dict returned for type t
CvCalledVia(c, t) == [c EXCEPT !.calls = @ + 1, !.via = t]

CvInit ==
    /\ SchedulerConstructed
    /\ DmConstructed
    /\ files = [t \in Files |-> 1]
    /\ DcConstructed
    /\ FdConstructed
    /\ McConstructed
    /\ CtConstructed
    /\ PoolConstructed
    /\ CvConstructed

\* MultiTaskCallbackConverter.add_task
CvAddTask(t) ==
    /\ cv.calls < MaxCalls
    /\ cv' = CvCalled(AddedTask(cv, t))
    /\ UNCHANGED cvFrame

\* MultiTaskCallbackConverter.get_callback_dict: the task type is registered
\* if it is not yet, and becomes the current one
CvGetCallbackDict(t) ==
    /\ cv.calls < MaxCalls
    /\ LET c == IF t \in Registered THEN cv ELSE AddedTask(cv, t)
       IN  cv' = CvCalled([c EXCEPT !.current_task_type = t,
                                    !.mark = Len(cv.events),
                                    !.statuses = 0,
                                    !.handed = @ \cup {t}])
    /\ UNCHANGED cvFrame

\* _on_multi_task_set_status and _on_set_status: start is fired on the group
\* of the current task type
CvSetStatus ==
    /\ cv.calls < MaxCalls
    /\ cv' = IF cv.current_task_type = NoType
             THEN CvCalled(cv)
             ELSE CvCalled([cv EXCEPT
                      !.events = Append(@, CvEv(cv.current_task_type, "start", 0)),
                      !.statuses = @ + 1])
    /\ UNCHANGED cvFrame

\* _on_multi_task_set_max, called as setMax of the adapter handed out for
\* type t: a bound method of the converter, it acts on the current task type
CvSetMax(t, v) ==
    /\ cv.calls < MaxCalls
    /\ t \in cv.handed
    /\ cv' = IF cv.current_task_type # NoType /\ cv.current_task_type \in Registered
             THEN CvCalledVia([cv EXCEPT
                      !.task_states[cv.current_task_type].max_progress = v], t)
             ELSE CvCalledVia(cv, t)
    /\ UNCHANGED cvFrame

\* _on_multi_task_set_progress with _on_task_finished, called as setProgress
\* of the adapter handed out for type t
CvSetProgress(t, v) ==
    /\ cv.calls < MaxCalls
    /\ t \in cv.handed
    /\ LET cur == cv.current_task_type
           states == [cv.task_states EXCEPT ![cur].progress = v]
           completes == v >= states[cur].max_progress /\ ~states[cur].completed
           completed == cv.completed_tasks + 1
           fired ==
               <<CvEv("download", "progress", OverallProgressOf(states))>>
               \o (IF completes THEN <<CvEv(cur, "finished", 0)>> ELSE <<>>)
               \o (IF completes /\ completed >= cv.total_tasks
                   THEN <<CvEv("download", "finished", 0)>>
                   ELSE <<>>)
       IN  cv' = IF cur # NoType /\ cur \in Registered
                 THEN CvCalledVia([cv EXCEPT
                          !.task_states =
                              IF completes
                              THEN [states EXCEPT ![cur].completed = TRUE]
                              ELSE states,
                          !.completed_tasks = IF completes THEN completed ELSE @,
                          !.events = @ \o fired], t)
                 ELSE CvCalledVia(cv, t)
    /\ UNCHANGED cvFrame

\* MultiTaskCallbackConverter.reset
CvReset ==
    /\ cv.calls < MaxCalls
    /\ cv' = CvCalled([cv EXCEPT
                 !.current_task_type = NoType,
                 !.task_states = [t \in TaskTypes |-> NoTaskState],
                 !.total_tasks = 0,
                 !.completed_tasks = 0,
                 !.mark = Len(cv.events),
                 !.statuses = 0])
    /\ UNCHANGED cvFrame

CvNext ==
    \/ \E t \in TaskTypes : CvAddTask(t)
    \/ \E t \in TaskTypes : CvGetCallbackDict(t)
    \/ CvSetStatus
    \/ \E t \in TaskTypes, v \in CvValues : CvSetMax(t, v)
    \/ \E t \in TaskTypes, v \in CvValues : CvSetProgress(t, v)
    \/ CvReset

CvSpec == CvInit /\ [][CvNext]_vars

\* ------------------------------------------------------------ claims C27-C28
\* the start events fired since the current task type was activated
StartsSinceActivation ==
    Cardinality({i \in (cv.mark + 1)..Len(cv.events) : cv.events[i].ev = "start"})

\* C27: within one activation of a task type (a get_callback_dict call and the
\* installer's calls that follow it) the start event of that task type is
\* fired exactly once, however many times setStatus is called.
C27_StartOncePerActivation == cv.statuses > 0 => StartsSinceActivation = 1

\* download.finished is among the events fired in this step
FiresDownloadFinished ==
    \E i \in (Len(cv.events) + 1)..Len(cv'.events) :
        cv'.events[i] = CvEv("download", "finished", 0)

\* C28: download.finished, the aggregate finished signal, is fired only in a
\* state where every registered task type has reached its max, for every
\* order of get_callback_dict, add_task, setMax and setProgress calls.
C28_FinishedOnlyWhenAllAtMax ==
    [][FiresDownloadFinished =>
          \A t \in TaskTypes :
              cv'.task_states[t].reg =>
                  cv'.task_states[t].progress >= cv'.task_states[t].max_progress]_vars

\* ------------------------------------------- CompositeInstallationTask.execute
\* One execute call of a composite task.  Each subtask is given by what its
\* validate returns and by how its execute ends: it returns True ("ok"),
\* returns False ("fail") or raises ("raise").
ctFrame == <<schedVars, dmVars, fd, mc, cv, pool, dc>>

SubtaskKinds ==
    {[validate |-> v, execute |-> e] : v \in BOOLEAN, e \in {"ok", "fail", "raise"}}

\* InstallationTask.set_progress
set_progress(value) ==
    IF value < 0 THEN 0 ELSE IF value > 100 THEN 100 ELSE value

\* line 619: int(((i + 1) / total_tasks) * 100), i counted from 0
SubtaskProgress(k) == set_progress((k * 100) \div NumSubtasks)

CtInit ==
    /\ SchedulerConstructed
    /\ DmConstructed
    /\ files = [t \in Files |-> 1]
    /\ DcConstructed
    /\ FdConstructed
    /\ McConstructed
    /\ CvConstructed
    /\ PoolConstructed
    /\ ct \in {CtNew(subs, parallel) : subs \in [Subtasks -> SubtaskKinds],
                                       parallel \in BOOLEAN}

\* lines 594-599
CtExecute ==
    /\ ct.pc = "idle"
    /\ ct' = [ct EXCEPT !.pc = "loop", !.status = "RUNNING"]
    /\ UNCHANGED ctFrame

\* lines 601-620, one pass of the loop: the subtask is validated and skipped
\* if that fails; else it is executed, and a False result ends the loop when
\* the composite is not parallel; an exception ends execute (lines 631-635)
CtSubtask ==
    /\ ct.pc = "loop"
    /\ ct.i <= NumSubtasks
    /\ LET k == ct.i
           sub == ct.subs[k]
           seen == [ct EXCEPT !.validated = @ \cup {k}]
           run == [seen EXCEPT !.executed = @ \cup {k}]
       IN  ct' = IF ~sub.validate
                 THEN [seen EXCEPT !.i = k + 1]
                 ELSE IF sub.execute = "ok"
                 THEN [run EXCEPT !.success_count = @ + 1,
                                  !.completed_subtasks = @ + 1,
                                  !.progress = SubtaskProgress(k),
                                  !.i = k + 1]
                 ELSE IF sub.execute = "fail"
                 THEN IF ~ct.parallel
                      THEN [run EXCEPT !.pc = "after"]
                      ELSE [run EXCEPT !.progress = SubtaskProgress(k),
                                       !.i = k + 1]
                 ELSE [run EXCEPT !.pc = "returned", !.status = "FAILED",
                                  !.error = TRUE, !.ret = "false"]
    /\ UNCHANGED ctFrame

\* lines 622-629: the loop is over, the successes are counted
CtFinish ==
    /\ \/ ct.pc = "after"
       \/ ct.pc = "loop" /\ ct.i > NumSubtasks
    /\ ct' = IF ct.success_count = NumSubtasks
             THEN [ct EXCEPT !.pc = "returned", !.status = "COMPLETED",
                             !.ret = "true"]
             ELSE [ct EXCEPT !.pc = "returned", !.status = "FAILED",
                             !.ret = "false"]
    /\ UNCHANGED ctFrame

CtNext ==
    \/ CtExecute
    \/ CtSubtask
    \/ CtFinish

CtSpec == CtInit /\ [][CtNext]_vars

\* ------------------------------------------------------------------ claim C29
\* the subtask succeeds: it validates and its execute returns True
Succeeds(k) == ct.subs[k].validate /\ ct.subs[k].execute = "ok"

\* C29: in a serial composite (parallel = False) the first subtask that does
\* not succeed halts the run: no later subtask is validated or executed, and
\* the composite returns false with status FAILED.
C29_FirstFailureHalts ==
    ~ct.parallel =>
        /\ \A k \in ct.validated \cup ct.executed :
              \A j \in 1..(k - 1) : Succeeds(j)
        /\ (ct.pc = "returned" /\ \E j \in Subtasks : ~Succeeds(j)) =>
              ct.ret = "false" /\ ct.status = "FAILED"

\* -------------------------------------------------------- ConnectionPoolManager
\* Coroutines on one event loop call get_client and close_all.  asyncio.Lock
\* is taken without suspending when it is free; get_client holds it from the
\* membership test to the return with no await in between, close_all holds it
\* across the awaits that close the clients.  A client is named by the order
\* of its creation.
poolFrame == <<schedVars, dmVars, fd, mc, cv, ct, dc>>

\* the membership test answering that no client is pooled, whatever the map
HasClient_never(clients, host_key) == FALSE

\* line 54: host_key in self._clients
HasClient(clients, host_key) == clients[host_key] # NoClient

\* the clients in the pool
Pooled == {pool.clients[h] : h \in Hosts} \ {NoClient}

PoolInit ==
    /\ SchedulerConstructed
    /\ DmConstructed
    /\ files = [t \in Files |-> 1]
    /\ DcConstructed
    /\ FdConstructed
    /\ McConstructed
    /\ CvConstructed
    /\ CtConstructed
    /\ PoolConstructed

\* lines 49-53: a coroutine calls get_client for a url of this host and
\* comes to the lock
GetClientCall(c, h) ==
    /\ pool.callers[c].pc \in {"idle", "done"}
    /\ pool.callers[c].calls < PoolMaxCalls
    /\ pool' = [pool EXCEPT !.callers[c].pc = "lock", !.callers[c].key = h,
                            !.callers[c].calls = @ + 1]
    /\ UNCHANGED poolFrame

\* lines 53-69: with the lock, the client of the key is created if the map
\* has none, and the client in the map is returned
GetClientLocked(c) ==
    /\ pool.callers[c].pc = "lock"
    /\ pool.lock = "free"
    /\ LET h == pool.callers[c].key
           creates == ~HasClient(pool.clients, h)
           clients == IF creates
                      THEN [pool.clients EXCEPT ![h] = pool.created + 1]
                      ELSE pool.clients
       IN  pool' = [pool EXCEPT
                       !.clients = clients,
                       !.created = IF creates THEN @ + 1 ELSE @,
                       !.made[h] = IF creates THEN @ + 1 ELSE @,
                       !.callers[c].pc = "done",
                       !.callers[c].got = clients[h],
                       !.callers[c].epoch = pool.closes]
    /\ UNCHANGED poolFrame

\* line 73: close_all takes the lock
CloseAllBegin ==
    /\ pool.closer = "idle"
    /\ pool.closes < MaxCloses
    /\ pool.lock = "free"
    /\ pool' = [pool EXCEPT !.closer = "closing", !.lock = "held"]
    /\ UNCHANGED poolFrame

\* lines 74-75: one client is closed
CloseOne ==
    /\ pool.closer = "closing"
    /\ \E id \in Pooled \ pool.closed :
          pool' = [pool EXCEPT !.closed = @ \cup {id}]
    /\ UNCHANGED poolFrame

\* lines 76-77: the map is cleared and the lock released
CloseAllEnd ==
    /\ pool.closer = "closing"
    /\ Pooled \subseteq pool.closed
    /\ pool' = [pool EXCEPT !.clients = [h \in Hosts |-> NoClient],
                            !.made = [h \in Hosts |-> 0],
                            !.closes = @ + 1,
                            !.closer = "idle",
                            !.lock = "free"]
    /\ UNCHANGED poolFrame

PoolNext ==
    \/ \E c \in Callers, h \in Hosts : GetClientCall(c, h)
    \/ \E c \in Callers : GetClientLocked(c)
    \/ CloseAllBegin
    \/ CloseOne
    \/ CloseAllEnd

PoolSpec == PoolInit /\ [][PoolNext]_vars

\* ------------------------------------------------------------------ claim C30
\* the coroutines whose last get_client call has returned
Returned == {c \in Callers : pool.callers[c].pc = "done"}

\* C30: under every interleaving of get_client calls at most one client is
\* created per scheme://host key and every call for the key returns that same
\* client, until close_all has closed all clients and emptied the pool.
C30_OneClientPerHost ==
    /\ \A h \in Hosts : pool.made[h] <= 1
    /\ \A c \in Returned :
          /\ pool.callers[c].got # NoClient
          /\ pool.callers[c].epoch = pool.closes =>
                pool.callers[c].got = pool.clients[pool.callers[c].key]
    /\ \A c, d \in Returned :
          (/\ pool.callers[c].key = pool.callers[d].key
           /\ pool.callers[c].epoch = pool.callers[d].epoch)
              => pool.callers[c].got = pool.callers[d].got
    /\ \A id \in 1..pool.created : id \notin Pooled => id \in pool.closed

\* C30 witness: two coroutines hold the same client of one key, and a third,
\* calling after close_all for that key, holds a new one
C30_Witness ==
    \E c, d, e \in Returned :
        /\ c # d
        /\ pool.callers[c].key = pool.callers[d].key
        /\ pool.callers[c].epoch = 0 /\ pool.callers[d].epoch = 0
        /\ pool.callers[c].got = pool.callers[d].got
        /\ pool.callers[e].key = pool.callers[c].key
        /\ pool.callers[e].epoch = 1
        /\ pool.callers[e].got # pool.callers[c].got

\* ------------------------------------------------------------------ DownloadCache
\* The cache index, the files on disk it refers to, and the clock.  A cache
\* key stands for one (url, path) pair; the files change behind the cache's
\* back (downloaded, deleted, overwritten).
dcFrame == <<schedVars, dmVars, fd, mc, cv, ct, pool>>

\* the sha1 values a caller passes
CallerSha1 == {NoSha, Sha1(Wanted)}

\* DownloadCache._verify_file_sha1
dc_verify_file_sha1(file, expected_sha1) ==
    file.exists /\ Sha1(file.content) = expected_sha1

\* lines 110-116: the entry is dropped by _cleanup_expired_cache
Expired(entry, file, current_time) ==
    \/ current_time - entry.download_time > max_cache_age
    \/ ~file.exists

\* _cleanup_expired_cache
cleanup_expired_cache(data, disk, current_time) ==
    [k \in CacheKeys |->
        IF data[k].present /\ Expired(data[k], disk[k], current_time)
        THEN NoEntry
        ELSE data[k]]

\* _save_cache: the expired entries are dropped, then the index is written to
\* the cache file, which this process does not read again
SavedCache(d, data) ==
    [d EXCEPT !.cache_data = cleanup_expired_cache(data, d.disk, d.now)]

Dropped(d, k) == [d EXCEPT !.cache_data[k] = NoEntry]

\* what a call of is_file_cached leaves behind: the cache and the answer
Answered(d, k, ret) ==
    [d EXCEPT !.last = [key |-> k, ret |-> ret,
                        age |-> IF dc.cache_data[k].present
                                THEN dc.now - dc.cache_data[k].download_time
                                ELSE 0,
                        kept |-> d.cache_data[k].present]]

DcInit ==
    /\ SchedulerConstructed
    /\ DmConstructed
    /\ files = [t \in Files |-> 1]
    /\ FdConstructed
    /\ McConstructed
    /\ CvConstructed
    /\ CtConstructed
    /\ PoolConstructed
    /\ dc \in {DcNew(disk) : disk \in [CacheKeys -> DiskStates]}

\* the steps of the clock: just over the verify interval, and what then
\* remains to just over the expiry window
Ticks == {verify_interval + 1, max_cache_age - 1}

\* time passes
DcTick ==
    /\ \E d \in Ticks :
          /\ dc.now + d <= MaxTime
          /\ dc' = [dc EXCEPT !.now = @ + d]
    /\ UNCHANGED dcFrame

\* a file is written or deleted by a download or by the user
DcFileChanges ==
    /\ \E k \in CacheKeys, file \in DiskStates :
          /\ file # dc.disk[k]
          /\ dc' = [dc EXCEPT !.disk[k] = file]
    /\ UNCHANGED dcFrame

\* DownloadCache.add_to_cache
DcAddToCache ==
    /\ \E k \in CacheKeys, sha1 \in CallerSha1 :
          dc' = SavedCache(dc,
                    [dc.cache_data EXCEPT ![k] =
                        [present |-> TRUE, sha1 |-> sha1, size |-> Len(Wanted),
                         download_time |-> dc.now, last_verified |-> dc.now]])
    /\ UNCHANGED dcFrame

\* DownloadCache.is_file_cached
DcIsFileCached ==
    /\ \E k \in CacheKeys, expected_size \in {0, Len(Wanted)},
          expected_sha1 \in CallerSha1 :
          LET entry == dc.cache_data[k]
              file == dc.disk[k]
          IN  dc' =
                IF ~entry.present
                THEN Answered(dc, k, FALSE)
                ELSE IF ~file.exists
                THEN Answered(Dropped(dc, k), k, FALSE)
                ELSE IF expected_size > 0 /\ Len(file.content) # expected_size
                THEN Answered(Dropped(dc, k), k, FALSE)
                ELSE IF /\ expected_sha1 # NoSha
                        /\ dc.now - entry.last_verified > verify_interval
                THEN IF dc_verify_file_sha1(file, expected_sha1)
                     THEN Answered(
                              SavedCache(dc, [dc.cache_data EXCEPT
                                                 ![k].last_verified = dc.now]),
                              k, TRUE)
                     ELSE Answered(Dropped(dc, k), k, FALSE)
                ELSE IF expected_sha1 # NoSha /\ entry.sha1 # expected_sha1
                THEN Answered(Dropped(dc, k), k, FALSE)
                ELSE Answered(dc, k, TRUE)
    /\ UNCHANGED dcFrame

\* DownloadCache.clear_cache
DcClearCache ==
    /\ \E k \in CacheKeys : dc.cache_data[k].present
    /\ dc' = [dc EXCEPT !.cache_data = [k \in CacheKeys |-> NoEntry]]
    /\ UNCHANGED dcFrame

DcNext ==
    \/ DcTick
    \/ DcFileChanges
    \/ DcAddToCache
    \/ DcIsFileCached
    \/ DcClearCache

DcSpec == DcInit /\ [][DcNext]_vars

\* ------------------------------------------------------------------ claim C31
\* C31: is_file_cached never answers true for an entry whose download_time is
\* older than max_cache_age; such an entry is dropped from the cache.
C31_ExpiredNeverCached ==
    dc.last.age > max_cache_age => (~dc.last.ret /\ ~dc.last.kept)

\* ------------------------------------------- scheduler: threads and stopping
\* the loop threads that are in the retry sleep of _handle_task_failure: after
\* a failed validation, or in a done-callback that add_done_callback ran on
\* the loop thread
LoopsInRetrySleep ==
    {i \in 1..Len(loops) :
        \/ loops[i].pc = "vsleep"
        \/ \E k \in 1..Len(futs) : futs[k].st = "lsleep" /\ futs[k].by = i}

\* C32: the retry delay after a task failure is never slept by a scheduling
\* loop thread, after a failed validation as after a failed execution, so the
\* loop keeps dispatching while a task waits for its retry.
C32_LoopNeverSleeps == LoopsInRetrySleep = {}

\* the loop threads that have not left _scheduler_loop
ActiveLoops == {i \in 1..Len(loops) : loops[i].pc # "exited"}

\* C33: at most one scheduling loop thread is active at any time, whatever the
\* sequence of start, pause, resume and stop.
C33_OneLoopThread == Cardinality(ActiveLoops) <= 1

\* C34: once stop() has returned, the status being STOPPED, no task goes to
\* RUNNING, after stop(wait=True) as after stop(wait=False), tasks already
\* submitted to the pool and not yet started included.
C34_StoppedStartsNothing ==
    [][status = "STOPPED" =>
          \A o \in 1..Len(objs) :
              ~(objs[o].status # "RUNNING" /\ objs'[o].status = "RUNNING")]_vars

\* ------------------------------------------------- converter: adapters
\* the progress and the max the converter keeps for a task type
ProgressAndMax(c, t) == <<c.task_states[t].progress, c.task_states[t].max_progress>>

\* C35: a setProgress or setMax call made through the adapter obtained for a
\* task type changes the progress and the max of that type only, whatever
\* get_callback_dict calls for other types come in between.
C35_AdapterUpdatesOwnType ==
    [][\A t \in TaskTypes :
          (cv'.calls = cv.calls + 1 /\ cv'.via = t)
              => \A u \in TaskTypes \ {t} :
                    ProgressAndMax(cv', u) = ProgressAndMax(cv, u)]_vars

\* ------------------------------------------- scheduler: submissions, removal
\* the submissions of a task_id that are queued or executing in a worker pool
InPool(id) ==
    {k \in 1..Len(futs) :
        objs[futs[k].obj].id = id /\ futs[k].st \in {"queued", "running"}}

\* C36: a task is never submitted to the worker pool while an earlier
\* submission of the same task_id is still queued or executing there.
C36_NoDoubleSubmission == \A id \in TaskIds : Cardinality(InPool(id)) <= 1

\* execute() of task object o is started in this step
ExecuteStarts(o) == objs'[o].runs = objs[o].runs + 1

\* C37: once remove_task(task_id) has returned True, and the task_id has not
\* been added again, execute() of that task is never started.
C37_RemovedNeverExecuted ==
    [][\A o \in 1..Len(objs) :
          ExecuteStarts(o) => tasks[objs[o].id] # NoTask]_vars

\* ------------------------------------------- scheduler: tasks added late
\* add_task called while the scheduler is RUNNING
AddWhileRunning(id, prio) == status = "RUNNING" /\ AddTask(id, prio, {})

\* the scheduler with a caller that starts it and adds its tasks afterwards,
\* at any time; the loop thread and the workers are scheduled fairly
LateNext ==
    \/ Start
    \/ \E id \in TaskIds, prio \in AllPriorities : AddWhileRunning(id, prio)
    \/ \E i \in 1..Len(loops) : LoopStep(i)
    \/ \E k \in 1..Len(futs) : WorkerStart(k)
    \/ \E k \in 1..Len(futs), res \in Outcomes : WorkerFinish(k, res)
    \/ \E k \in 1..Len(futs) : OnTaskCompleted(k)
    \/ \E k \in 1..Len(futs) : CallbackRetryPut(k)

LateSpec ==
    /\ Init
    /\ [][LateNext]_vars
    /\ \A i \in 1..MaxLoops : WF_vars(i <= Len(loops) /\ LoopStep(i))
    /\ WF_vars(\E k \in 1..Len(futs) : WorkerStart(k))
    /\ WF_vars(\E k \in 1..Len(futs), res \in Outcomes : WorkerFinish(k, res))
    /\ WF_vars(\E k \in 1..Len(futs) : OnTaskCompleted(k))
    /\ WF_vars(\E k \in 1..Len(futs) : CallbackRetryPut(k))

\* the queue holds an entry for the task_id
Queued(id) == \E n \in 1..Len(task_queue) : task_queue[n][2] = id

\* C38: every task added with add_task while the status is RUNNING is
\* eventually taken from the queue by the scheduling loop, a task added after
\* all earlier tasks have finished included.
C38_AddedEventuallyTaken == \A id \in TaskIds : Queued(id) ~> ~Queued(id)

\* ------------------------------------------- scheduler: progress snapshot
\* get_progress, lines 367-370: the percentage of the snapshot
progress_percentage ==
    IF total_tasks = 0 THEN 0 ELSE (completed_count * 100) \div total_tasks

\* C39: in every snapshot get_progress returns, completed_tasks + failed_tasks
\* is at most total_tasks and progress_percentage lies between 0 and 100.
C39_ProgressWithinTotal ==
    lock = "free" =>
        /\ get_progress.completed_tasks + get_progress.failed_tasks
              <= get_progress.total_tasks
        /\ progress_percentage \in 0..100

\* ------------------------------------------- DownloadManager: finished
\* the finished event of the callback group has been emitted
FinishedEmitted == \E n \in 1..Len(events) : events[n].ev = "finished"

\* C40: schedule() emits finished only if every task of the list was
\* downloaded successfully, also when cancel() was called during the run.
C40_FinishedOnlyIfAllDownloaded ==
    FinishedEmitted => \A t \in Files : coros[t].out = "ok"

====
